---- MODULE Spec2Model ----
(***************************************************************************)
(* Model of the error-correction and key-processing layer of the BB84      *)
(* demonstration: CSSCode and BB84ErrorCorrection (BB84ErrorCorrection.py) *)
(* and privacy_amp, recover_key_with_seed, remove_garbage                  *)
(* (key_processing.py).                                                    *)
(*                                                                         *)
(* Bit vectors are sequences over {0,1}; a position is 0-based as in the   *)
(* Python source and indexes a sequence at position+1.  A call that can    *)
(* raise returns a record: Ok(v) or Raise(e).                              *)
(***************************************************************************)
EXTENDS Integers, Sequences, FiniteSets

VARIABLES
    G1, G2, H1, H2,                 \* CSSCode matrices
    x_syndrome_table,               \* CSSCode.x_syndrome_table: key -> pattern
    z_syndrome_table,               \* CSSCode.z_syndrome_table: key -> pattern
    build_pc,                       \* loop iterations _build_syndrome_table has run
    last,                           \* the operation the caller ran last
    data, codeword,                 \* encode_block: argument, result
    received, logical_bits,         \* decode_block: argument, result
    parity, correction,             \* _minimum_weight_correction: H, result
    key, encoded_key,               \* encode_key / privacy_amp: argument, result
    received_key, decoded_key,      \* decode_key: argument, result
    error_positions,                \* identify_errors: result
    compressed_key,                 \* privacy_amp: result
    seed_bit, recovered_key,        \* recover_key_with_seed: argument, result
    a_basis, b_basis, bits,         \* remove_garbage: arguments
    good_bits                       \* remove_garbage: result

css == <<G1, G2, H1, H2, x_syndrome_table, z_syndrome_table, build_pc>>
blockVars == <<data, codeword, received, logical_bits, parity, correction>>
keyVars == <<key, encoded_key, received_key, decoded_key, error_positions>>
ampVars == <<compressed_key, seed_bit, recovered_key>>
basisVars == <<a_basis, b_basis, bits, good_bits>>
vars == <<css, last, blockVars, keyVars, ampVars, basisVars>>

----------------------------------------------------------------------------
(* Bounds of the model.                                                    *)
MaxDataLen == 3
MaxBlockLen == 8
MaxKeyLen == 7
MaxRecvLen == 8
MaxBasisLen == 4

(* Program constants.                                                      *)
n1 == 7
k1 == 1
k2 == 3
bits_per_block == 3

Bit == {0, 1}
BitSeqs(lo, hi) == UNION {[1..m -> Bit] : m \in lo..hi}

Ok(v) == [ok |-> TRUE, val |-> v, err |-> "none"]
Raise(e) == [ok |-> FALSE, val |-> <<>>, err |-> e]
NotRun == [ok |-> FALSE, val |-> <<>>, err |-> "not run"]

LengthError == "ValueError: block length"
ShapeError == "ValueError: shapes not aligned"
ConcatError == "ValueError: need at least one array to concatenate"
IndexError == "IndexError: list index out of range"

----------------------------------------------------------------------------
(* numpy helpers                                                           *)

Xor(a, b) == (a + b) % 2

zeros(m) == [p \in 1..m |-> 0]

RECURSIVE DotSum(_, _, _)
DotSum(a, b, i) == IF i = 0 THEN 0 ELSE a[i] * b[i] + DotSum(a, b, i - 1)

\* np.mod(np.dot(H, v), 2) for a matrix H (sequence of rows) and a vector v
\* whose length is the row length
MatVec(H, v) == [r \in 1..Len(H) |-> DotSum(H[r], v, Len(v)) % 2]

RECURSIVE ColSum(_, _, _, _)
ColSum(v, M, c, r) == IF r = 0 THEN 0 ELSE v[r] * M[r][c] + ColSum(v, M, c, r - 1)

\* np.mod(np.dot(v, M), 2) for a vector v and a matrix M: numpy raises
\* ValueError unless len(v) equals the number of rows of M
VecMat(v, M) ==
    IF Len(v) # Len(M)
    THEN Raise(ShapeError)
    ELSE Ok([c \in 1..Len(M[1]) |-> ColSum(v, M, c, Len(v)) % 2])

\* np.pad(v, (0, padding_length), 'constant') up to a multiple of m
PadTo(v, m) ==
    IF Len(v) % m # 0
    THEN v \o zeros(m - (Len(v) % m))
    ELSE v

\* row b (1-based) of v.reshape(-1, m)
Row(v, m, b) == SubSeq(v, (b - 1) * m + 1, b * m)

\* v[:m]
Prefix(v, m) == SubSeq(v, 1, IF m < Len(v) THEN m ELSE Len(v))

\* range(a, b) as a sequence
Range(a, b) == [x \in 1..(IF b > a THEN b - a ELSE 0) |-> a + x - 1]

\* itertools.product(A, B) as a sequence of pairs, A major
Product(A, B) ==
    [x \in 1..(Len(A) * Len(B)) |->
        <<A[((x - 1) \div Len(B)) + 1], B[((x - 1) % Len(B)) + 1]>>]

\* sorted(S) for a finite set of integers
RECURSIVE Sorted(_)
Sorted(S) ==
    IF S = {} THEN <<>>
    ELSE LET m == CHOOSE x \in S : \A y \in S : x <= y
         IN <<m>> \o Sorted(S \ {m})

----------------------------------------------------------------------------
(* CSSCode                                                                 *)

SteaneG1 == << <<1, 0, 0, 1, 0, 1, 0>>,
               <<0, 1, 0, 1, 0, 0, 1>>,
               <<0, 0, 1, 0, 1, 1, 1>> >>

SteaneG2 == << <<1, 0, 0, 1, 0, 1, 0>>,
               <<0, 1, 0, 1, 0, 0, 1>>,
               <<0, 0, 1, 0, 1, 1, 1>>,
               <<0, 0, 0, 1, 1, 1, 0>> >>

SteaneH1 == << <<0, 0, 0, 1, 1, 1, 0>>,
               <<0, 1, 1, 0, 0, 1, 0>>,
               <<1, 0, 1, 0, 1, 0, 0>>,
               <<1, 1, 0, 1, 0, 0, 0>> >>

SteaneH2 == << <<0, 0, 0, 1, 1, 1, 0>>,
               <<0, 1, 1, 0, 0, 1, 0>>,
               <<1, 0, 1, 0, 1, 0, 0>> >>

\* int(''.join(map(str, syndrome)), 2): most significant bit first
RECURSIVE SyndromeKey(_, _)
SyndromeKey(syndrome, i) ==
    IF i = 0 THEN 0 ELSE 2 * SyndromeKey(syndrome, i - 1) + syndrome[i]

_syndrome_to_key(syndrome) == SyndromeKey(syndrome, Len(syndrome))

\* the error pattern with position i set
SingleError(i) == [p \in 1..n1 |-> IF p = i + 1 THEN 1 ELSE 0]

\* the error pattern with positions i and j set
DoubleError(i, j) == [p \in 1..n1 |-> IF p = i + 1 \/ p = j + 1 THEN 1 ELSE 0]

\* table[k] = v
Put(table, k, v) ==
    [x \in (DOMAIN table) \cup {k} |-> IF x = k THEN v ELSE table[x]]

\* first loop of _build_syndrome_table: every single-bit pattern is written
\* under its syndrome, a later one replacing an earlier one
RECURSIVE SingleLoop(_, _, _)
SingleLoop(table, H, i) ==
    IF i = n1 THEN table
    ELSE SingleLoop(Put(table, _syndrome_to_key(MatVec(H, SingleError(i))),
                        SingleError(i)),
                    H, i + 1)

\* the pairs the second loop of _build_syndrome_table runs over:
\* product(range(n1), range(i+1, n1)), the iterable being built once, before
\* the loop, with i still holding the last value of the first loop
TwoBitPairs == Product(Range(0, n1), Range((n1 - 1) + 1, n1))

\* second loop of _build_syndrome_table: a two-bit pattern is written only
\* under a syndrome the table does not hold yet
RECURSIVE DoubleLoop(_, _, _, _)
DoubleLoop(table, H, pairs, x) ==
    IF x > Len(pairs) THEN table
    ELSE LET e == DoubleError(pairs[x][1], pairs[x][2])
             s == _syndrome_to_key(MatVec(H, e))
         IN DoubleLoop(IF s \in DOMAIN table THEN table ELSE Put(table, s, e),
                       H, pairs, x + 1)

\* the table _build_syndrome_table leaves for parity-check matrix H
_build_syndrome_table(H) ==
    LET singles == SingleLoop(<<>>, H, 0)
        withZero == Put(singles, _syndrome_to_key(zeros(Len(H))), zeros(n1))
    IN DoubleLoop(withZero, H, TwoBitPairs, 1)

\* _build_syndrome_table statement by statement: the iterations of the first
\* loop, the no-error case, then the iterations of the second loop
BuildIterations ==
    [i \in 1..n1 |-> [kind |-> "single", i |-> i - 1, j |-> i - 1]]
    \o << [kind |-> "zero", i |-> 0, j |-> 0] >>
    \o [x \in 1..Len(TwoBitPairs) |->
          [kind |-> "double", i |-> TwoBitPairs[x][1], j |-> TwoBitPairs[x][2]]]

\* what one iteration does to the table of parity-check matrix H
ApplyIteration(table, H, it) ==
    IF it.kind = "single"
    THEN Put(table, _syndrome_to_key(MatVec(H, SingleError(it.i))), SingleError(it.i))
    ELSE IF it.kind = "zero"
    THEN Put(table, _syndrome_to_key(zeros(Len(H))), zeros(n1))
    ELSE LET e == DoubleError(it.i, it.j)
             s == _syndrome_to_key(MatVec(H, e))
         IN IF s \in DOMAIN table THEN table ELSE Put(table, s, e)

encode_block(d) ==
    IF Len(d) # k2 - k1
    THEN Raise(LengthError)
    ELSE LET logical_word == [p \in 1..3 |-> IF p <= k1 THEN 0 ELSE d[p - k1]]
         IN VecMat(logical_word, G2)

\* first loop of _minimum_weight_correction from position i on: the first
\* single-bit pattern with the syndrome, as a sequence of at most one pattern
RECURSIVE WeightOneScan(_, _, _)
WeightOneScan(H, syndrome, i) ==
    IF i >= n1 THEN <<>>
    ELSE IF MatVec(H, SingleError(i)) = syndrome THEN << SingleError(i) >>
    ELSE WeightOneScan(H, syndrome, i + 1)

\* second loop of _minimum_weight_correction from the pair (i, j) on: the
\* first two-bit pattern with the syndrome, as a sequence of at most one
RECURSIVE WeightTwoScan(_, _, _, _)
WeightTwoScan(H, syndrome, i, j) ==
    IF i >= n1 THEN <<>>
    ELSE IF j >= n1 THEN WeightTwoScan(H, syndrome, i + 1, i + 2)
    ELSE IF MatVec(H, DoubleError(i, j)) = syndrome THEN << DoubleError(i, j) >>
    ELSE WeightTwoScan(H, syndrome, i, j + 1)

\* the loops without their early return: the last matching pattern is kept
RECURSIVE WeightOneLast(_, _, _, _)
WeightOneLast(H, syndrome, i, found) ==
    IF i >= n1 THEN found
    ELSE WeightOneLast(H, syndrome, i + 1,
            IF MatVec(H, SingleError(i)) = syndrome
            THEN << SingleError(i) >> ELSE found)

RECURSIVE WeightTwoLast(_, _, _, _, _)
WeightTwoLast(H, syndrome, i, j, found) ==
    IF i >= n1 THEN found
    ELSE IF j >= n1 THEN WeightTwoLast(H, syndrome, i + 1, i + 2, found)
    ELSE WeightTwoLast(H, syndrome, i, j + 1,
            IF MatVec(H, DoubleError(i, j)) = syndrome
            THEN << DoubleError(i, j) >> ELSE found)

_minimum_weight_correction_last(r, H) ==
    LET syndrome == MatVec(H, r)
        one == WeightOneLast(H, syndrome, 0, <<>>)
        two == WeightTwoLast(H, syndrome, 0, 1, <<>>)
    IN IF one # <<>> THEN one[1]
       ELSE IF two # <<>> THEN two[1]
       ELSE zeros(n1)

\* the first matching pattern of weight 1, else of weight 2, else zero
_minimum_weight_correction(r, H) ==
    LET syndrome == MatVec(H, r)
        one == WeightOneScan(H, syndrome, 0)
        two == WeightTwoScan(H, syndrome, 0, 1)
    IN IF one # <<>> THEN one[1]
       ELSE IF two # <<>> THEN two[1]
       ELSE zeros(n1)

\* the error pattern decode_block and identify_errors resolve for a block
ErrorPattern(r) ==
    LET x_syndrome_key == _syndrome_to_key(MatVec(H2, r))
    IN IF x_syndrome_key \in DOMAIN x_syndrome_table
       THEN x_syndrome_table[x_syndrome_key]
       ELSE _minimum_weight_correction(r, H2)

decode_block(r) ==
    IF Len(r) # n1
    THEN Raise(LengthError)
    ELSE LET error_pattern == ErrorPattern(r)
             corrected == [p \in 1..n1 |-> Xor(r[p], error_pattern[p])]
         IN Ok(<<corrected[3 + 1], corrected[5 + 1]>>)

----------------------------------------------------------------------------
(* BB84ErrorCorrection                                                     *)

effective_k == k2 - k1

_pad_key(k) == PadTo(k, effective_k)

RECURSIVE EncodeBlocks(_, _, _)
EncodeBlocks(padded, b, nblocks) ==
    IF b > nblocks THEN Ok(<<>>)
    ELSE LET e == encode_block(Row(padded, effective_k, b))
         IN IF ~e.ok THEN e
            ELSE LET rest == EncodeBlocks(padded, b + 1, nblocks)
                 IN IF ~rest.ok THEN rest ELSE Ok(e.val \o rest.val)

encode_key(k) ==
    LET padded_key == _pad_key(k)
        nblocks == Len(padded_key) \div effective_k
    IN IF nblocks = 0
       THEN Raise(ConcatError)
       ELSE EncodeBlocks(padded_key, 1, nblocks)

RECURSIVE DecodeBlocks(_, _, _)
DecodeBlocks(padded, b, nblocks) ==
    IF b > nblocks THEN <<>>
    ELSE decode_block(Row(padded, n1, b)).val \o DecodeBlocks(padded, b + 1, nblocks)

decode_key(rk) ==
    LET original_length == Len(rk)
        padded == PadTo(rk, n1)
        nblocks == Len(padded) \div n1
    IN IF nblocks = 0
       THEN Raise(ConcatError)
       ELSE Ok(Prefix(DecodeBlocks(padded, 1, nblocks), original_length))

identify_errors(rk) ==
    LET original_length == Len(rk)
        padded == PadTo(rk, n1)
        nblocks == Len(padded) \div n1
        BlockErrors(i) ==
            LET block == Row(padded, n1, i + 1)
            IN IF _syndrome_to_key(MatVec(H2, block)) = 0
               THEN {}
               ELSE {i * n1 + pos : pos \in
                        {q \in 0..(n1 - 1) : ErrorPattern(block)[q + 1] # 0}}
    IN Sorted({g \in UNION {BlockErrors(i) : i \in 0..(nblocks - 1)} :
                  g < original_length})

----------------------------------------------------------------------------
(* key_processing                                                          *)

\* privacy_amp with the second output of a window taken as x XOR z
privacy_amp_xz(k) ==
    IF Len(k) < bits_per_block
    THEN k
    ELSE [x \in 1..(2 * (Len(k) \div bits_per_block)) |->
            LET i == (x - 1) \div 2
            IN IF x % 2 = 1
               THEN Xor(k[3 * i + 1], k[3 * i + 2])
               ELSE Xor(k[3 * i + 1], k[3 * i + 3])]

privacy_amp(k) ==
    IF Len(k) < bits_per_block
    THEN k
    ELSE LET blocks_count == Len(k) \div bits_per_block
         IN [x \in 1..(2 * blocks_count) |->
                LET i == (x - 1) \div 2
                    block == SubSeq(k, i * bits_per_block + 1,
                                    i * bits_per_block + bits_per_block)
                IN IF x % 2 = 1
                   THEN Xor(block[1], block[2])
                   ELSE Xor(block[2], block[3])]

RECURSIVE RecoverLoop(_, _, _, _)
RecoverLoop(recovered, compressed, i, blocks_count) ==
    IF i = blocks_count THEN recovered
    ELSE LET x_xor_y == compressed[i * 2 + 1]
             y_xor_z == compressed[i * 2 + 1 + 1]
             y == Xor(recovered[Len(recovered)], x_xor_y)
             z == Xor(y, y_xor_z)
         IN RecoverLoop(recovered \o <<y, z>>, compressed, i + 1, blocks_count)

\* recover_key_with_seed with z rebuilt from the value before y instead of y
RECURSIVE RecoverLoopPrev(_, _, _, _)
RecoverLoopPrev(recovered, compressed, i, blocks_count) ==
    IF i = blocks_count THEN recovered
    ELSE LET prev == recovered[Len(recovered)]
             y == Xor(prev, compressed[i * 2 + 1])
             z == Xor(prev, compressed[i * 2 + 1 + 1])
         IN RecoverLoopPrev(recovered \o <<y, z>>, compressed, i + 1, blocks_count)

recover_key_with_seed_prev(compressed, seed) ==
    IF compressed = <<>>
    THEN <<>>
    ELSE RecoverLoopPrev(<<seed>>, compressed, 0, Len(compressed) \div 2)

recover_key_with_seed(compressed, seed) ==
    IF compressed = <<>>
    THEN <<>>
    ELSE RecoverLoop(<<seed>>, compressed, 0, Len(compressed) \div 2)

RECURSIVE GarbageLoop(_, _, _, _, _)
GarbageLoop(a, b, bs, q, good) ==
    IF q = Len(a) THEN Ok(good)
    ELSE IF q >= Len(b) THEN Raise(IndexError)
    ELSE IF a[q + 1] = b[q + 1]
    THEN IF q >= Len(bs) THEN Raise(IndexError)
         ELSE GarbageLoop(a, b, bs, q + 1, Append(good, bs[q + 1]))
    ELSE GarbageLoop(a, b, bs, q + 1, good)

\* remove_garbage keeping the bits where the bases differ
RECURSIVE GarbageLoopDiffer(_, _, _, _, _)
GarbageLoopDiffer(a, b, bs, q, good) ==
    IF q = Len(a) THEN Ok(good)
    ELSE IF q >= Len(b) THEN Raise(IndexError)
    ELSE IF a[q + 1] # b[q + 1]
    THEN IF q >= Len(bs) THEN Raise(IndexError)
         ELSE GarbageLoopDiffer(a, b, bs, q + 1, Append(good, bs[q + 1]))
    ELSE GarbageLoopDiffer(a, b, bs, q + 1, good)

remove_garbage_differ(a, b, bs) == GarbageLoopDiffer(a, b, bs, 0, <<>>)

\* remove_garbage stopping one index early
remove_garbage_short(a, b, bs) ==
    IF Len(a) = 0 THEN Ok(<<>>)
    ELSE GarbageLoop(SubSeq(a, 1, Len(a) - 1), b, bs, 0, <<>>)

remove_garbage(a, b, bs) == GarbageLoop(a, b, bs, 0, <<>>)

----------------------------------------------------------------------------
(* The state after CSSCode() / BB84ErrorCorrection() is constructed and    *)
(* before the caller runs anything.                                        *)

Init ==
    /\ G1 = SteaneG1
    /\ G2 = SteaneG2
    /\ H1 = SteaneH1
    /\ H2 = SteaneH2
    /\ x_syndrome_table = _build_syndrome_table(SteaneH2)
    /\ z_syndrome_table = _build_syndrome_table(SteaneH1)
    /\ build_pc = Len(BuildIterations)
    /\ last = "none"
    /\ data = <<>>
    /\ codeword = NotRun
    /\ received = <<>>
    /\ logical_bits = NotRun
    /\ parity = <<>>
    /\ correction = <<>>
    /\ key = <<>>
    /\ encoded_key = NotRun
    /\ received_key = <<>>
    /\ decoded_key = NotRun
    /\ error_positions = NotRun
    /\ compressed_key = NotRun
    /\ seed_bit = 0
    /\ recovered_key = NotRun
    /\ a_basis = <<>>
    /\ b_basis = <<>>
    /\ bits = <<>>
    /\ good_bits = NotRun

\* css.encode_block(data)
EncodeBlock ==
    /\ last = "none"
    /\ \E d \in BitSeqs(0, MaxDataLen) :
        /\ data' = d
        /\ codeword' = encode_block(d)
    /\ last' = "encode_block"
    /\ UNCHANGED <<css, received, logical_bits, parity, correction,
                   keyVars, ampVars, basisVars>>

\* css.decode_block(received)
DecodeBlock ==
    /\ last = "none"
    /\ \E r \in BitSeqs(n1 - 1, MaxBlockLen) :
        /\ received' = r
        /\ logical_bits' = decode_block(r)
    /\ last' = "decode_block"
    /\ UNCHANGED <<css, data, codeword, parity, correction,
                   keyVars, ampVars, basisVars>>

\* a parity-check matrix handed to _minimum_weight_correction as H under which
\* some syndromes belong to no pattern of weight 1 or 2 (under H1 and H2
\* every syndrome a block can have belongs to one)
NarrowH == << <<1, 0, 0, 0, 0, 0, 0>>,
              <<0, 1, 0, 0, 0, 0, 0>>,
              <<0, 0, 1, 0, 0, 0, 0>> >>

\* css._minimum_weight_correction(received, H) on an n1-bit block, H one of
\* the parity-check matrices of the object or one the caller brings
MinimumWeightCorrection ==
    /\ last = "none"
    /\ \E r \in BitSeqs(n1, n1), H \in {H1, H2, NarrowH} :
        /\ received' = r
        /\ parity' = H
        /\ correction' = _minimum_weight_correction(r, H)
    /\ last' = "_minimum_weight_correction"
    /\ UNCHANGED <<css, data, codeword, logical_bits, keyVars, ampVars, basisVars>>

\* ec.encode_key(key)
EncodeKey ==
    /\ last = "none"
    /\ \E k \in BitSeqs(0, MaxKeyLen) :
        /\ key' = k
        /\ encoded_key' = encode_key(k)
    /\ last' = "encode_key"
    /\ UNCHANGED <<css, blockVars, received_key, decoded_key, error_positions,
                   ampVars, basisVars>>

\* ec.decode_key(received_key)
DecodeKey ==
    /\ last = "none"
    /\ \E r \in BitSeqs(0, MaxRecvLen) :
        /\ received_key' = r
        /\ decoded_key' = decode_key(r)
    /\ last' = "decode_key"
    /\ UNCHANGED <<css, blockVars, key, encoded_key, error_positions,
                   ampVars, basisVars>>

\* ec.identify_errors(received_key)
IdentifyErrors ==
    /\ last = "none"
    /\ \E r \in BitSeqs(0, MaxRecvLen) :
        /\ received_key' = r
        /\ error_positions' = Ok(identify_errors(r))
    /\ last' = "identify_errors"
    /\ UNCHANGED <<css, blockVars, key, encoded_key, decoded_key,
                   ampVars, basisVars>>

\* privacy_amp(key)
PrivacyAmp ==
    /\ last = "none"
    /\ \E k \in BitSeqs(0, MaxKeyLen) :
        /\ key' = k
        /\ compressed_key' = Ok(privacy_amp(k))
    /\ last' = "privacy_amp"
    /\ UNCHANGED <<css, blockVars, encoded_key, received_key, decoded_key,
                   error_positions, seed_bit, recovered_key, basisVars>>

\* recover_key_with_seed(compressed_key, seed_bit) on the amplified key
RecoverKey ==
    /\ last = "privacy_amp"
    /\ \E s \in Bit :
        /\ seed_bit' = s
        /\ recovered_key' = Ok(recover_key_with_seed(compressed_key.val, s))
    /\ last' = "recover_key_with_seed"
    /\ UNCHANGED <<css, blockVars, keyVars, compressed_key, basisVars>>

\* the caller's basis choices and measured bits, as handed to remove_garbage
Measure ==
    /\ last = "none"
    /\ \E a \in BitSeqs(0, MaxBasisLen), b \in BitSeqs(0, MaxBasisLen),
          bs \in BitSeqs(0, MaxBasisLen) :
        /\ a_basis' = a
        /\ b_basis' = b
        /\ bits' = bs
    /\ last' = "measure"
    /\ UNCHANGED <<css, blockVars, keyVars, ampVars, good_bits>>

\* remove_garbage(a_basis, b_basis, bits): the three lists are only read
RemoveGarbage ==
    /\ last = "measure"
    /\ good_bits' = remove_garbage(a_basis, b_basis, bits)
    /\ last' = "remove_garbage"
    /\ UNCHANGED <<css, blockVars, keyVars, ampVars, a_basis, b_basis, bits>>

Next ==
    \/ EncodeBlock
    \/ DecodeBlock
    \/ MinimumWeightCorrection
    \/ EncodeKey
    \/ DecodeKey
    \/ IdentifyErrors
    \/ PrivacyAmp
    \/ RecoverKey
    \/ Measure
    \/ RemoveGarbage

Spec == Init /\ [][Next]_vars

----------------------------------------------------------------------------
(* The construction itself: CSSCode.__init__ has set the matrices and       *)
(* _build_syndrome_table starts from two empty tables.                      *)

Unused ==
    /\ last = "none"
    /\ data = <<>>
    /\ codeword = NotRun
    /\ received = <<>>
    /\ logical_bits = NotRun
    /\ parity = <<>>
    /\ correction = <<>>
    /\ key = <<>>
    /\ encoded_key = NotRun
    /\ received_key = <<>>
    /\ decoded_key = NotRun
    /\ error_positions = NotRun
    /\ compressed_key = NotRun
    /\ seed_bit = 0
    /\ recovered_key = NotRun
    /\ a_basis = <<>>
    /\ b_basis = <<>>
    /\ bits = <<>>
    /\ good_bits = NotRun

InitBuild ==
    /\ G1 = SteaneG1
    /\ G2 = SteaneG2
    /\ H1 = SteaneH1
    /\ H2 = SteaneH2
    /\ x_syndrome_table = <<>>
    /\ z_syndrome_table = <<>>
    /\ build_pc = 0
    /\ Unused

Built == build_pc = Len(BuildIterations)

\* one loop iteration (or the no-error statements) of _build_syndrome_table
BuildStep ==
    /\ build_pc < Len(BuildIterations)
    /\ x_syndrome_table' =
          ApplyIteration(x_syndrome_table, H2, BuildIterations[build_pc + 1])
    /\ z_syndrome_table' =
          ApplyIteration(z_syndrome_table, H1, BuildIterations[build_pc + 1])
    /\ build_pc' = build_pc + 1
    /\ UNCHANGED <<G1, G2, H1, H2, last, blockVars, keyVars, ampVars, basisVars>>

\* the object is used only once it is constructed
NextBuild ==
    \/ BuildStep
    \/ Built /\ EncodeBlock
    \/ Built /\ DecodeBlock
    \/ Built /\ MinimumWeightCorrection
    \/ Built /\ EncodeKey
    \/ Built /\ DecodeKey
    \/ Built /\ IdentifyErrors
    \/ Built /\ PrivacyAmp
    \/ Built /\ RecoverKey
    \/ Built /\ Measure
    \/ Built /\ RemoveGarbage

SpecBuild == InitBuild /\ [][NextBuild]_vars

\* the tables the statements leave are the tables of _build_syndrome_table
BuildAgrees ==
    Built => /\ x_syndrome_table = _build_syndrome_table(H2)
             /\ z_syndrome_table = _build_syndrome_table(H1)

----------------------------------------------------------------------------
(* Properties                                                              *)

\* received[pos] = 1 - received[pos] for every pos in F (0-based)
Flip(v, F) == [p \in 1..Len(v) |-> IF (p - 1) \in F THEN 1 - v[p] ELSE v[p]]

\* the sets of positions of a word of length m with at most one position
\* in each n1-bit block
OneFlipPerBlock(m) ==
    {F \in SUBSET (0..(m - 1)) :
        \A p \in F, q \in F : p # q => (p \div n1) # (q \div n1)}

\* the number of full windows of a key
Windows(k) == Len(k) \div bits_per_block

\* C1: for every message m of length k2-k1, decode_block(encode_block(m))
\* is m when no bit of the codeword is changed.
C1_RoundTripBlock ==
    (last = "encode_block" /\ Len(data) = k2 - k1) =>
        /\ codeword.ok
        /\ decode_block(codeword.val) = Ok(data)

\* C2: for every message m of length k2-k1 and every position p in 0..n1-1,
\* decode_block of encode_block(m) with bit p flipped is m.
C2_SingleFlipCorrected ==
    (last = "encode_block" /\ Len(data) = k2 - k1) =>
        /\ codeword.ok
        /\ \A p \in 0..(n1 - 1) :
              decode_block(Flip(codeword.val, {p})) = Ok(data)

\* C3: for every key of length >= 1, decode_key(encode_key(key)) cut to
\* len(key) is key when the encoded key is passed through unchanged.
C3_RoundTripKey ==
    (last = "encode_key" /\ Len(key) >= 1) =>
        /\ encoded_key.ok
        /\ decode_key(encoded_key.val).ok
        /\ Prefix(decode_key(encoded_key.val).val, Len(key)) = key

\* C4: for every key, with at most one bit flipped in each n1-bit block of
\* encode_key(key), identify_errors returns exactly the flipped positions.
C4_FlipsLocated ==
    (last = "encode_key" /\ Len(key) >= 1) =>
        /\ encoded_key.ok
        /\ \A F \in OneFlipPerBlock(Len(encoded_key.val)) :
              identify_errors(Flip(encoded_key.val, F)) = Sorted(F)

\* C5 as stated: for every key of length >= 3, recover_key_with_seed on
\* privacy_amp(key) with the seed equal to the first window's y rebuilds
\* the pair (y, z) of every window, read either after the seed or from the
\* seed on.
C5_SeedYRebuildsPairs ==
    (last = "recover_key_with_seed" /\ Len(key) >= 3 /\ seed_bit = key[2]) =>
        LET r == recovered_key.val
        IN \/ \A w \in 0..(Windows(key) - 1) :
                 /\ r[2 * w + 2] = key[3 * w + 2]
                 /\ r[2 * w + 3] = key[3 * w + 3]
           \/ \A w \in 0..(Windows(key) - 1) :
                 /\ r[2 * w + 1] = key[3 * w + 2]
                 /\ r[2 * w + 2] = key[3 * w + 3]

\* C5 amended: for every key of length >= 3 and any seed, the recovered
\* sequence has 2*floor(len/3)+1 elements and starts with the seed; the pair
\* rebuilt for window w is that window's (y, z) exactly when the value rebuilt
\* just before it is that window's x.  With the seed equal to the first
\* window's x the first window's (y, z) is rebuilt.
C5_PairRebuiltIffPreviousIsX ==
    (last = "recover_key_with_seed" /\ Len(key) >= 3) =>
        LET r == recovered_key.val
        IN /\ recovered_key.ok
           /\ Len(r) = 2 * Windows(key) + 1
           /\ r[1] = seed_bit
           /\ \A w \in 0..(Windows(key) - 1) :
                 (r[2 * w + 1] = key[3 * w + 1]) <=>
                    (r[2 * w + 2] = key[3 * w + 2] /\ r[2 * w + 3] = key[3 * w + 3])
           /\ seed_bit = key[1] => (r[2] = key[2] /\ r[3] = key[3])

\* a key of two windows recovered with the seed equal to its first x, whose
\* second window is not rebuilt
C5_Witness ==
    /\ last = "recover_key_with_seed"
    /\ Len(key) = 6
    /\ seed_bit = key[1]
    /\ recovered_key.val[2] = key[2]
    /\ recovered_key.val[3] = key[3]
    /\ recovered_key.val[4] # key[5]

\* C6: for every key of length L >= 3, privacy_amp(key) has length
\* 2*floor(L/3), element 2w is key[3w] XOR key[3w+1] and element 2w+1 is
\* key[3w+1] XOR key[3w+2]; changing the L mod 3 trailing bits leaves the
\* output as it is.
C6_PrivacyAmpWindows ==
    (last = "privacy_amp" /\ Len(key) >= 3) =>
        LET c == compressed_key.val
            full == 3 * Windows(key)
        IN /\ compressed_key.ok
           /\ Len(c) = 2 * Windows(key)
           /\ \A w \in 0..(Windows(key) - 1) :
                 /\ c[2 * w + 1] = Xor(key[3 * w + 1], key[3 * w + 2])
                 /\ c[2 * w + 2] = Xor(key[3 * w + 2], key[3 * w + 3])
           /\ \A t \in BitSeqs(Len(key) - full, Len(key) - full) :
                 privacy_amp(SubSeq(key, 1, full) \o t) = c

\* a key of two windows and one trailing bit, amplified
C6_Witness ==
    /\ last = "privacy_amp"
    /\ Len(key) = 7
    /\ Len(compressed_key.val) = 4

\* the indices (1-based) at which the two bases agree
Matching == {i \in 1..Len(a_basis) : a_basis[i] = b_basis[i]}

\* C7: for inputs of equal length, remove_garbage returns exactly the bits
\* at the indices where a_basis and b_basis agree, in ascending index order,
\* and the call leaves a_basis, b_basis and bits as they were.
C7_KeepsMatchingInOrder ==
    /\ [](  (/\ last = "remove_garbage"
             /\ Len(a_basis) = Len(b_basis)
             /\ Len(a_basis) = Len(bits)) =>
               /\ good_bits.ok
               /\ Len(good_bits.val) = Cardinality(Matching)
               /\ \A i \in Matching :
                     good_bits.val[Cardinality({j \in Matching : j <= i})] = bits[i])
    /\ [][last' = "remove_garbage" => UNCHANGED <<a_basis, b_basis, bits>>]_vars

\* equal-length inputs with a mismatch between two matches, filtered
C7_Witness ==
    /\ last = "remove_garbage"
    /\ a_basis = <<1, 0, 1>>
    /\ b_basis = <<1, 1, 1>>
    /\ bits = <<0, 1, 1>>
    /\ good_bits = Ok(<<0, 1>>)

\* C8 as stated: remove_garbage([0,1,0,1], [0,0,0,1], [1,1,0,0]) is [1,0].
C8_ExampleGivesTwoBits ==
    (/\ last = "remove_garbage"
     /\ a_basis = <<0, 1, 0, 1>>
     /\ b_basis = <<0, 0, 0, 1>>
     /\ bits = <<1, 1, 0, 0>>) => good_bits = Ok(<<1, 0>>)

\* C8 amended: remove_garbage([0,1,0,1], [0,0,0,1], [1,1,0,0]) is [1,0,0],
\* the bases agreeing at positions 0, 2 and 3.
C8_ExampleGivesThreeBits ==
    (/\ last = "remove_garbage"
     /\ a_basis = <<0, 1, 0, 1>>
     /\ b_basis = <<0, 0, 0, 1>>
     /\ bits = <<1, 1, 0, 0>>) =>
        /\ good_bits = Ok(<<1, 0, 0>>)
        /\ {i - 1 : i \in Matching} = {0, 2, 3}

\* the example of C8, filtered
C8_Witness ==
    /\ last = "remove_garbage"
    /\ a_basis = <<0, 1, 0, 1>>
    /\ b_basis = <<0, 0, 0, 1>>
    /\ bits = <<1, 1, 0, 0>>
    /\ good_bits.ok

\* C9: encode_block fails with a length error exactly when its input length
\* is not k2-k1 and otherwise returns an n1-bit block; decode_block fails
\* with a length error exactly when its input length is not n1 and otherwise
\* returns a (k2-k1)-bit block; neither fails on a block of the right size.
C9_FailOnlyOnLength ==
    /\ last = "encode_block" =>
          /\ (codeword.err = LengthError) <=> (Len(data) # k2 - k1)
          /\ Len(data) = k2 - k1 => (codeword.ok /\ Len(codeword.val) = n1)
    /\ last = "decode_block" =>
          /\ (logical_bits.err = LengthError) <=> (Len(received) # n1)
          /\ Len(received) = n1 =>
                (logical_bits.ok /\ Len(logical_bits.val) = k2 - k1)

\* C10: the matrices fixed at construction satisfy H*G^T = 0 (mod 2): every
\* row of the generator matrix encode_block uses has an all-zero syndrome
\* under the parity-check matrix H2 of decode_block and identify_errors.
C10_ParityAnnihilatesGenerator ==
    \A r \in 1..Len(G2) : MatVec(H2, G2[r]) = zeros(Len(H2))

\* the error patterns in ascending weight: none, every single position in
\* ascending order, every pair i < j in ascending order of i, then j
AscendingPatterns ==
    << zeros(n1) >>
    \o [i \in 1..n1 |-> SingleError(i - 1)]
    \o [x \in 1..(n1 * n1) |-> DoubleError((x - 1) \div n1, (x - 1) % n1)]

\* the positions of AscendingPatterns that hold a pattern of weight <= 2
\* (a pair is listed once, as i < j)
Listed ==
    {x \in 1..Len(AscendingPatterns) :
        x > n1 + 1 => ((x - n1 - 2) \div n1) < ((x - n1 - 2) % n1)}

\* table is the first-writer-wins map of H by ascending weight: it holds the
\* syndrome of every pattern of weight <= 2, each under the first pattern in
\* ascending weight that has this syndrome
FirstWriterWins(table, H) ==
    LET keyOf(x) == _syndrome_to_key(MatVec(H, AscendingPatterns[x]))
    IN /\ DOMAIN table = {keyOf(x) : x \in Listed}
       /\ \A x \in Listed :
             (\A y \in Listed : y < x => keyOf(y) # keyOf(x)) =>
                 table[keyOf(x)] = AscendingPatterns[x]

\* an entry a table holds stays as it is
EntriesKept(table, tableNext) ==
    \A k \in DOMAIN table : k \in DOMAIN tableNext /\ tableNext[k] = table[k]

\* C11: after _build_syndrome_table each table is the first-writer-wins map
\* by ascending weight (zero syndrome to the zero pattern, an entry for every
\* weight-1 syndrome, then every weight-2 pattern whose syndrome is not yet
\* claimed), and an entry once written is never overwritten.
C11_FirstWriterWinsTables ==
    /\ [](Built => /\ x_syndrome_table[0] = zeros(n1)
                   /\ FirstWriterWins(x_syndrome_table, H2)
                   /\ FirstWriterWins(z_syndrome_table, H1))
    /\ [][/\ EntriesKept(x_syndrome_table, x_syndrome_table')
          /\ EntriesKept(z_syndrome_table, z_syndrome_table')]_vars

\* C11, the final tables alone
C11_FinalTables ==
    Built => /\ FirstWriterWins(x_syndrome_table, H2)
             /\ FirstWriterWins(z_syndrome_table, H1)

\* C11, the weight-0 and weight-1 entries alone
C11_LightEntries ==
    Built =>
        /\ x_syndrome_table[0] = zeros(n1)
        /\ z_syndrome_table[0] = zeros(n1)
        /\ \A i \in 0..(n1 - 1) :
              /\ _syndrome_to_key(MatVec(H2, SingleError(i))) \in DOMAIN x_syndrome_table
              /\ _syndrome_to_key(MatVec(H1, SingleError(i))) \in DOMAIN z_syndrome_table

\* C11, the entries never being overwritten alone
C11_NeverOverwritten ==
    [][/\ EntriesKept(x_syndrome_table, x_syndrome_table')
       /\ EntriesKept(z_syndrome_table, z_syndrome_table')]_vars

\* pattern e has the syndrome of block r under H
SameSyndrome(H, e, r) == MatVec(H, e) = MatVec(H, r)

\* p is what the search must resolve for block r under H: the single-bit
\* pattern of the lowest matching position if one matches; otherwise the
\* two-bit pattern of the first matching pair (lowest i, then lowest j > i)
\* if one matches; otherwise the all-zero pattern
Resolves(H, r, p) ==
    LET Pos == 0..(n1 - 1)
        oneAt(i) == SameSyndrome(H, SingleError(i), r)
        twoAt(i, j) == i < j /\ SameSyndrome(H, DoubleError(i, j), r)
    IN IF \E i \in Pos : oneAt(i)
       THEN \E i \in Pos :
               /\ oneAt(i)
               /\ \A h \in Pos : h < i => ~oneAt(h)
               /\ p = SingleError(i)
       ELSE IF \E i \in Pos, j \in Pos : twoAt(i, j)
       THEN \E i \in Pos, j \in Pos :
               /\ twoAt(i, j)
               /\ \A h \in Pos, l \in Pos :
                     (h < i \/ (h = i /\ l < j)) => ~twoAt(h, l)
               /\ p = DoubleError(i, j)
       ELSE p = zeros(n1)

\* the syndrome of block r is not a key of x_syndrome_table
Absent(r) == _syndrome_to_key(MatVec(H2, r)) \notin DOMAIN x_syndrome_table

\* C12: _minimum_weight_correction(received, H) resolves the first matching
\* weight-1 pattern, else the first matching weight-2 pattern, else the
\* all-zero pattern (checked for every n1-bit block, so also for those whose
\* syndrome the table lacks); and decode_block on a block whose syndrome is
\* absent from the table applies that pattern and returns a (k2-k1)-bit
\* result without failing, the block's own bits when the pattern is zero.
C12_FallbackResolution ==
    /\ last = "_minimum_weight_correction" =>
          Resolves(parity, received, correction)
    /\ (last = "decode_block" /\ Len(received) = n1 /\ Absent(received)) =>
          \E p \in [1..n1 -> Bit] :
             /\ Resolves(H2, received, p)
             /\ logical_bits.ok
             /\ Len(logical_bits.val) = k2 - k1
             /\ logical_bits.val = <<Xor(received[4], p[4]), Xor(received[6], p[6])>>
             /\ p = zeros(n1) => logical_bits.val = <<received[4], received[6]>>

\* a block whose syndrome the table lacks, decoded with a two-bit pattern
\* that changes a returned bit
C12_Witness ==
    /\ last = "decode_block"
    /\ Len(received) = n1
    /\ Absent(received)
    /\ logical_bits.ok
    /\ logical_bits.val # <<received[4], received[6]>>

\* the search falling back to the all-zero pattern on a block whose syndrome
\* is not zero: no pattern of weight 1 or 2 has that syndrome
C12_ZeroFallbackReached ==
    /\ last = "_minimum_weight_correction"
    /\ correction = zeros(n1)
    /\ MatVec(parity, received) # zeros(Len(parity))

\* under the matrices of the object the search never falls back to the
\* all-zero pattern: position 6 matches the zero syndrome, and every other
\* syndrome a block can have is that of a pattern of weight 1 or 2
C12_ObjectMatricesNeverFallBack ==
    (last = "_minimum_weight_correction" /\ parity \in {H1, H2}) =>
        correction # zeros(n1)

\* within decode_block the all-zero fallback is never taken: every syndrome
\* x_syndrome_table lacks is the syndrome of a two-bit pattern under H2
C12_DecodeNeverFallsToZero ==
    (last = "decode_block" /\ Len(received) = n1 /\ Absent(received)) =>
        _minimum_weight_correction(received, H2) # zeros(n1)

====
